---- MODULE Spec2Model ----
(***************************************************************************)
(* Model of the cityaccess ingestion pipeline (src/api/sync_hospitals.py): *)
(* the Overpass mirror loop, the conversion of source elements to feature  *)
(* dictionaries, and the per-record INSERT ... ON CONFLICT DO UPDATE into  *)
(* the health_facilities table; of the script fetch_hospitals.py; and of   *)
(* the query service (src/api/app/main.py) that reads the tables.          *)
(*                                                                         *)
(* Spec is a sequence of runs of one script, SpecRuns two runs of          *)
(* sync_hospitals.py at the same time with a query meanwhile, and          *)
(* SpecService the handlers of the query service on a given table.         *)
(*                                                                         *)
(* Python values are tagged records: None, Str(<<chars>>), Num(n).  A      *)
(* Python dict is a function whose DOMAIN is the set of keys present.  SQL *)
(* NULL is None (asyncpg maps one to the other).                           *)
(***************************************************************************)
EXTENDS Integers, Sequences, FiniteSets, TLC

VARIABLES
    script,     \* which script is run: "sync_hospitals" or "fetch_hospitals"
    geojson,    \* contents of hospitals_at.geojson (fetch_hospitals.py)
    pc,         \* position of the script
    runs,       \* number of ingestion runs started so far
    url,        \* index into OVERPASS_URLS of the next mirror to try
    data,       \* fetch_facilities' local `data`
    served,     \* history: index of the mirror whose body is bound to `data`
    attempts,   \* history: one entry per mirror tried (the printed log lines)
    fetched,    \* history: len(data['elements']) as printed on success
    features,   \* the list fetch_facilities returned
    next,       \* index of the next element of `features` to upsert
    inserted,   \* upsert_facilities' local counter
    err,        \* the exception that ended the run, "" when none
    store,      \* rows of table health_facilities
    nextId,     \* the id column's default for the next inserted row
    lastOp,     \* history: what the last executed statement did
    lastId,     \* history: id of the row the last statement wrote
    pool,       \* app.main's global `pool`: "none", "open" or "closed"
    hospitals,  \* rows of table hospitals
    request,    \* the request the query service is given
    response,   \* what the handler returned or raised, None before it ran
    batch,      \* concurrent runs: the `features` of each run
    pos,        \* concurrent runs: index of the next record of each run
    status,     \* concurrent runs: position of each run
    counted,    \* concurrent runs: each run's `inserted`
    applied     \* history: <<run, index>> of the statements executed, in order

\* the state of the query service
serviceVars == <<pool, hospitals, request, response>>

\* the state of concurrent ingestion runs
runVars == <<batch, pos, status, counted, applied>>

vars == <<script, geojson, pc, runs, url, data, served, attempts, fetched, features, next,
          inserted, err, store, nextId, lastOp, lastId, serviceVars, runVars>>

----------------------------------------------------------------------------
(* Bounds of the model *)

\* longest element list a mirror returns
MaxBatch == 2

\* number of ingestion runs
MaxRuns == 2

----------------------------------------------------------------------------
(* Python values *)

None == [t |-> "none"]

Str(s) == [t |-> "str", s |-> s]

Num(n) == [t |-> "num", n |-> n]

\* the value of an expression that raised KeyError
KeyError == [t |-> "KeyError"]

\* dict.get(key, default)
Get(d, key, default) == IF key \in DOMAIN d THEN d[key] ELSE default

\* `key in d`
In(key, d) == key \in DOMAIN d

\* truth value of None or of a dict, as `if not data` takes it
Truthy(v) == v # None /\ DOMAIN v # {}

\* what an f-string replacement field renders
Format(v) ==
    IF v = None THEN <<"N", "o", "n", "e">> ELSE v.s

IsSpace(c) == c = " "

RECURSIVE LStrip(_)
LStrip(s) ==
    IF s # <<>> /\ IsSpace(Head(s)) THEN LStrip(Tail(s)) ELSE s

RECURSIVE RStrip(_)
RStrip(s) ==
    IF s # <<>> /\ IsSpace(s[Len(s)])
    THEN RStrip(SubSeq(s, 1, Len(s) - 1))
    ELSE s

\* str.strip()
Strip(s) == RStrip(LStrip(s))

----------------------------------------------------------------------------
(* The source: mirrors, response bodies and elements *)

OVERPASS_URLS ==
    << "https://overpass-api.de/api/interpreter",
       "https://overpass.kumi.systems/api/interpreter",
       "https://lz4.overpass-api.de/api/interpreter" >>

EmptyDict == [k \in {} |-> None]

\* tags of a source element
TagsA1 ==
    ("name" :> Str(<<"A">>)) @@ ("addr:street" :> Str(<<" ", "R">>)) @@
    ("addr:housenumber" :> Str(<<"7">>)) @@ ("addr:postcode" :> Str(<<"1">>)) @@
    ("addr:city" :> Str(<<"W">>)) @@ ("phone" :> Str(<<"p", "1">>)) @@
    ("website" :> Str(<<"w">>)) @@ ("operator" :> Str(<<"o">>)) @@
    ("emergency" :> Str(<<"y">>)) @@ ("capacity" :> Str(<<"1", "2", "0">>)) @@
    ("amenity" :> Str(<<"c">>))

\* same name, city and amenity as TagsA1; other tags differ or are missing
TagsA2 ==
    ("name" :> Str(<<"A">>)) @@ ("addr:street" :> Str(<<"R">>)) @@
    ("addr:city" :> Str(<<"W">>)) @@ ("phone" :> Str(<<"p", "2">>)) @@
    ("capacity" :> Str(<<>>)) @@ ("amenity" :> Str(<<"c">>))

\* no name, no address, no city, no capacity
TagsU == ("amenity" :> Str(<<"h">>))

TagsB ==
    ("name" :> Str(<<"B">>)) @@ ("addr:housenumber" :> Str(<<"9">>)) @@
    ("addr:city" :> Str(<<"G">>)) @@ ("capacity" :> Str(<<" ", "7">>)) @@
    ("amenity" :> Str(<<"h">>))

\* a capacity that is no number
TagsBad ==
    ("name" :> Str(<<"A">>)) @@ ("addr:city" :> Str(<<"W">>)) @@
    ("capacity" :> Str(<<"n", "/", "a">>)) @@ ("amenity" :> Str(<<"c">>))

Node(lat, lon, tags) == [lat |-> Num(lat), lon |-> Num(lon), tags |-> tags]

\* the elements a mirror may return
Elements ==
    { Node(48, 16, TagsA1),
      Node(47, 17, TagsA2),
      Node(48, 16, TagsU),
      Node(46, 15, TagsB),
      Node(48, 16, TagsBad),
      [lon |-> Num(16), tags |-> TagsB],
      [lat |-> Num(48), tags |-> TagsU] }

RECURSIVE SeqsUpTo(_, _)
SeqsUpTo(S, n) ==
    IF n = 0 THEN {<<>>}
    ELSE LET shorter == SeqsUpTo(S, n - 1)
         IN  shorter \cup {Append(q, e) : q \in shorter, e \in S}

\* what response.json() may give: null, an object without "elements",
\* or an object with an element list
Bodies ==
    {None, [remark |-> Str(<<"e">>)]}
        \cup {[elements |-> es] : es \in SeqsUpTo(Elements, MaxBatch)}

\* len(data['elements']) evaluates without raising
Usable(body) == body # None /\ In("elements", body)

----------------------------------------------------------------------------
(* fetch_facilities: conversion of elements to feature dictionaries *)

\* HasCoords without the test for "lon"
HasCoordsLatOnly(element) == In("lat", element)

\* `"lat" in element and "lon" in element`
HasCoords(element) == In("lat", element) /\ In("lon", element)

\* element[key]; KeyError when the key is missing
Subscript(d, key) == IF In(key, d) THEN d[key] ELSE KeyError

Properties(element) ==
    LET tags == Get(element, "tags", EmptyDict)
    IN  [ name          |-> Get(tags, "name", Str(<<"U", "n", "k", "n", "o", "w", "n", " ",
                                                    "f", "a", "c", "i", "l", "i", "t", "y">>)),
          street        |-> Get(tags, "addr:street", None),
          housenumber   |-> Get(tags, "addr:housenumber", None),
          postcode      |-> Get(tags, "addr:postcode", None),
          city          |-> Get(tags, "addr:city", None),
          phone         |-> Get(tags, "phone", None),
          website       |-> Get(tags, "website", None),
          operator      |-> Get(tags, "operator", None),
          emergency     |-> Get(tags, "emergency", None),
          capacity      |-> Get(tags, "capacity", None),
          facility_type |-> Get(tags, "amenity", None),
          source        |-> Str(<<"O", "S", "M">>),
          lon           |-> Subscript(element, "lon"),
          lat           |-> Subscript(element, "lat") ]

RECURSIVE Convert(_)
Convert(elements) ==
    IF elements = <<>> THEN <<>>
    ELSE IF HasCoords(Head(elements))
         THEN <<Properties(Head(elements))>> \o Convert(Tail(elements))
         ELSE Convert(Tail(elements))

----------------------------------------------------------------------------
(* fetch_hospitals.py: conversion of elements to GeoJSON features *)

Feature(element) ==
    LET tags == Get(element, "tags", EmptyDict)
    IN  [ type       |-> "Feature",
          geometry   |-> [type |-> "Point",
                          coordinates |-> <<Subscript(element, "lon"),
                                            Subscript(element, "lat")>>],
          properties |->
            [ name        |-> Get(tags, "name", Str(<<"U", "n", "k", "n", "o", "w", "n", " ",
                                                      "h", "o", "s", "p", "i", "t", "a", "l">>)),
              street      |-> Get(tags, "addr:street", None),
              housenumber |-> Get(tags, "addr:housenumber", None),
              postcode    |-> Get(tags, "addr:postcode", None),
              city        |-> Get(tags, "addr:city", None),
              phone       |-> Get(tags, "phone", None),
              website     |-> Get(tags, "website", None),
              operator    |-> Get(tags, "operator", None),
              emergency   |-> Get(tags, "emergency", None),
              capacity    |-> Get(tags, "capacity", None),
              source      |-> Str(<<"O", "S", "M">>) ] ]

RECURSIVE Features(_)
Features(elements) ==
    IF elements = <<>> THEN <<>>
    ELSE IF HasCoords(Head(elements))
         THEN <<Feature(Head(elements))>> \o Features(Tail(elements))
         ELSE Features(Tail(elements))

FeatureCollection(fs) == [type |-> "FeatureCollection", features |-> fs]

\* some element makes the conversion raise
ConvertRaises(elements) ==
    \E k \in 1..Len(elements) :
        /\ HasCoords(elements[k])
        /\ KeyError \in {Subscript(elements[k], "lon"), Subscript(elements[k], "lat")}

----------------------------------------------------------------------------
(* The statement upsert_facilities executes, as PostgreSQL evaluates it *)

\* SRID of ST_SetSRID
SRID == 4326

DigitChars == {"0", "1", "2", "3", "4", "5", "6", "7", "8", "9"}

DigitVal(c) ==
    CASE c = "0" -> 0 [] c = "1" -> 1 [] c = "2" -> 2 [] c = "3" -> 3
      [] c = "4" -> 4 [] c = "5" -> 5 [] c = "6" -> 6 [] c = "7" -> 7
      [] c = "8" -> 8 [] c = "9" -> 9

RECURSIVE DigitsValue(_, _)
DigitsValue(s, acc) ==
    IF s = <<>> THEN acc ELSE DigitsValue(Tail(s), 10 * acc + DigitVal(Head(s)))

\* text::int : blanks around an optionally signed run of digits, in int4 range
IntCast(s) ==
    LET body   == Strip(s)
        signed == body # <<>> /\ Head(body) \in {"+", "-"}
        digits == IF signed THEN Tail(body) ELSE body
        value  == IF signed /\ Head(body) = "-"
                  THEN 0 - DigitsValue(digits, 0)
                  ELSE DigitsValue(digits, 0)
    IN  IF /\ digits # <<>>
           /\ \A k \in 1..Len(digits) : digits[k] \in DigitChars
           /\ value >= 0 - 2147483647 - 1
           /\ value <= 2147483647
        THEN [ok |-> TRUE, value |-> Num(value)]
        ELSE [ok |-> FALSE, value |-> None]

\* Capacity with a text that is no number stored as NULL
CapacityLenient(raw) ==
    IF raw = None \/ raw = Str(<<>>) \/ ~IntCast(raw.s).ok
    THEN [ok |-> TRUE, value |-> None]
    ELSE IntCast(raw.s)

\* NULLIF($9, '')::int
Capacity(raw) ==
    IF raw = None \/ raw = Str(<<>>)
    THEN [ok |-> TRUE, value |-> None]
    ELSE IntCast(raw.s)

\* ST_SetSRID(ST_Point($12, $13), 4326); both functions are strict
Geom(lon, lat) ==
    IF lon = None \/ lat = None THEN None
    ELSE [x |-> lon.n, y |-> lat.n, srid |-> SRID]

\* the second argument: f"{props.get('street','')} {props.get('housenumber','')}".strip()
Address(props) ==
    Str(Strip(Format(Get(props, "street", Str(<<>>))) \o <<" ">>
                \o Format(Get(props, "housenumber", Str(<<>>)))))

\* the row proposed for insertion (EXCLUDED), without its id
Excluded(props) ==
    [ name          |-> Get(props, "name", None),
      address       |-> Address(props),
      city          |-> Get(props, "city", None),
      postcode      |-> Get(props, "postcode", None),
      phone         |-> Get(props, "phone", None),
      website       |-> Get(props, "website", None),
      operator      |-> Get(props, "operator", None),
      emergency     |-> Get(props, "emergency", None),
      capacity      |-> Capacity(Get(props, "capacity", None)).value,
      facility_type |-> Get(props, "facility_type", None),
      source        |-> Get(props, "source", None),
      geom          |-> Geom(Get(props, "lon", None), Get(props, "lat", None)) ]

\* SQL equality of two index columns: never true when either is NULL (a
\* unique index holds NULLs as distinct values)
SqlEq(a, b) == a # None /\ b # None /\ a = b

\* ON CONFLICT (name, city, facility_type): the row the arbiter index finds
Conflicts(row, new) ==
    /\ SqlEq(row.name, new.name)
    /\ SqlEq(row.city, new.city)
    /\ SqlEq(row.facility_type, new.facility_type)

\* the proposed row with the id column's default
WithId(new, id) == [k \in DOMAIN new \cup {"id"} |-> IF k = "id" THEN id ELSE new[k]]

\* DoUpdate replacing the whole row by the proposed one
DoUpdateWholeRow(row, new) == WithId(new, row.id)

\* DoUpdate keeping the stored value where the proposed one is NULL
DoUpdateCoalesce(row, new) ==
    [row EXCEPT !.address   = IF new.address = None THEN @ ELSE new.address,
                !.postcode  = IF new.postcode = None THEN @ ELSE new.postcode,
                !.phone     = IF new.phone = None THEN @ ELSE new.phone,
                !.website   = IF new.website = None THEN @ ELSE new.website,
                !.operator  = IF new.operator = None THEN @ ELSE new.operator,
                !.emergency = IF new.emergency = None THEN @ ELSE new.emergency,
                !.capacity  = IF new.capacity = None THEN @ ELSE new.capacity,
                !.geom      = IF new.geom = None THEN @ ELSE new.geom]

\* DO UPDATE SET ... = EXCLUDED. ...
DoUpdate(row, new) ==
    [row EXCEPT !.address   = new.address,
                !.postcode  = new.postcode,
                !.phone     = new.phone,
                !.website   = new.website,
                !.operator  = new.operator,
                !.emergency = new.emergency,
                !.capacity  = new.capacity,
                !.geom      = new.geom]

\* Execute emptying the table before it inserts
ExecuteReplacingTable(rows, nid, props) ==
    LET new == Excluded(props)
        hit == {r \in rows : Conflicts(r, new)}
    IN  IF ~Capacity(Get(props, "capacity", None)).ok
        THEN [op |-> "error", rows |-> rows, nid |-> nid, id |-> 0]
        ELSE IF hit = {}
        THEN [op |-> "insert", rows |-> {WithId(new, nid)},
              nid |-> nid + 1, id |-> nid]
        ELSE LET old == CHOOSE r \in hit : TRUE
             IN  [op |-> "update",
                  rows |-> (rows \ {old}) \cup {DoUpdate(old, new)},
                  nid |-> nid, id |-> old.id]

\* Execute with ON CONFLICT DO NOTHING
ExecuteDoNothing(rows, nid, props) ==
    LET new == Excluded(props)
        hit == {r \in rows : Conflicts(r, new)}
    IN  IF ~Capacity(Get(props, "capacity", None)).ok
        THEN [op |-> "error", rows |-> rows, nid |-> nid, id |-> 0]
        ELSE IF hit = {}
        THEN [op |-> "insert", rows |-> rows \cup {WithId(new, nid)},
              nid |-> nid + 1, id |-> nid]
        ELSE [op |-> "update", rows |-> rows, nid |-> nid,
              id |-> (CHOOSE r \in hit : TRUE).id]

\* one conn.execute of the statement on table `rows`
Execute(rows, nid, props) ==
    LET new == Excluded(props)
        hit == {r \in rows : Conflicts(r, new)}
    IN  IF ~Capacity(Get(props, "capacity", None)).ok
        THEN [op |-> "error", rows |-> rows, nid |-> nid, id |-> 0]
        ELSE IF hit = {}
        THEN [op |-> "insert", rows |-> rows \cup {WithId(new, nid)},
              nid |-> nid + 1, id |-> nid]
        ELSE LET old == CHOOSE r \in hit : TRUE
             IN  [op |-> "update",
                  rows |-> (rows \ {old}) \cup {DoUpdate(old, new)},
                  nid |-> nid, id |-> old.id]

----------------------------------------------------------------------------
(* The ingestion script *)

\* The table before the first run of the script: one row that was not
\* written by this pipeline (its source is not "OSM").
LegacyRow ==
    [ id            |-> 1,
      name          |-> Str(<<"B">>),
      address       |-> Str(<<"o", "l", "d">>),
      city          |-> Str(<<"G">>),
      postcode      |-> None,
      phone         |-> Str(<<"p", "0">>),
      website       |-> None,
      operator      |-> None,
      emergency     |-> None,
      capacity      |-> None,
      facility_type |-> Str(<<"h">>),
      source        |-> Str(<<"m", "a", "n", "u", "a", "l">>),
      geom          |-> [x |-> 14, y |-> 45, srid |-> SRID] ]

Scripts == {"sync_hospitals", "fetch_hospitals"}

Init ==
    /\ script \in Scripts
    /\ geojson = None
    /\ pc = "idle"
    /\ runs = 0
    /\ url = 1
    /\ data = None
    /\ served = 0
    /\ attempts = <<>>
    /\ fetched = 0
    /\ features = <<>>
    /\ next = 1
    /\ inserted = 0
    /\ err = ""
    /\ store = {LegacyRow}
    /\ nextId = LegacyRow.id + 1
    /\ lastOp = "none"
    /\ lastId = 0
    /\ pool = "none"
    /\ hospitals = {}
    /\ request = None
    /\ response = None
    /\ batch = <<>>
    /\ pos = <<>>
    /\ status = <<>>
    /\ counted = <<>>
    /\ applied = <<>>

\* asyncio.run(main()): a new run of the script, after the previous one ended
main ==
    /\ script = "sync_hospitals"
    /\ pc \in {"idle", "done", "failed"}
    /\ runs < MaxRuns
    /\ runs' = runs + 1
    /\ pc' = "fetch"
    /\ url' = 1
    /\ data' = None
    /\ served' = 0
    /\ attempts' = <<>>
    /\ fetched' = 0
    /\ features' = <<>>
    /\ next' = 1
    /\ inserted' = 0
    /\ err' = ""
    /\ lastOp' = "none"
    /\ lastId' = 0
    /\ UNCHANGED <<store, nextId>>
    /\ UNCHANGED <<script, geojson>>
    /\ UNCHANGED <<serviceVars, runVars>>

\* AfterAttempt without the break
AfterAttemptNoBreak(ok, u) ==
    IF u = Len(OVERPASS_URLS) THEN "loaded" ELSE "fetch"

\* where the mirror loop goes after an attempt: break on success, else the
\* next url, and out of the loop after the last one
AfterAttempt(ok, u) ==
    IF ok \/ u = Len(OVERPASS_URLS) THEN "loaded" ELSE "fetch"

\* one iteration of `for url in OVERPASS_URLS` whose request raises
\* (transport error, HTTP status or a body that is no JSON): data is untouched
fetch_facilities_request_fails ==
    /\ script = "sync_hospitals"
    /\ pc = "fetch"
    /\ attempts' = Append(attempts, [url |-> url, ok |-> FALSE])
    /\ pc' = AfterAttempt(FALSE, url)
    /\ url' = url + 1
    /\ UNCHANGED <<runs, data, served, fetched, features, next, inserted, err,
                   store, nextId, lastOp, lastId>>
    /\ UNCHANGED <<script, geojson>>
    /\ UNCHANGED <<serviceVars, runVars>>

\* one iteration whose request returns JSON: data is bound, then
\* len(data['elements']) either raises (a failed attempt) or the loop breaks
fetch_facilities_response ==
    /\ script = "sync_hospitals"
    /\ pc = "fetch"
    /\ \E body \in Bodies :
        /\ data' = body
        /\ served' = url
        /\ attempts' = Append(attempts, [url |-> url, ok |-> Usable(body)])
        /\ pc' = AfterAttempt(Usable(body), url)
        /\ fetched' = IF Usable(body) THEN Len(body["elements"]) ELSE fetched
    /\ url' = url + 1
    /\ UNCHANGED <<runs, features, next, inserted, err, store, nextId, lastOp, lastId>>
    /\ UNCHANGED <<script, geojson>>
    /\ UNCHANGED <<serviceVars, runVars>>

\* after the loop: `if not data: raise RuntimeError`
fetch_facilities_unavailable ==
    /\ pc = "loaded"
    /\ ~Truthy(data)
    /\ pc' = "failed"
    /\ err' = "RuntimeError"
    /\ UNCHANGED <<runs, url, data, served, attempts, fetched, features, next,
                   inserted, store, nextId, lastOp, lastId>>
    /\ UNCHANGED <<script, geojson>>
    /\ UNCHANGED <<serviceVars, runVars>>

\* after the loop: data["elements"] is missing, or an element raises
fetch_facilities_raises ==
    /\ pc = "loaded"
    /\ Truthy(data)
    /\ \/ ~In("elements", data)
       \/ /\ In("elements", data)
          /\ ConvertRaises(data["elements"])
    /\ pc' = "failed"
    /\ err' = "KeyError"
    /\ UNCHANGED <<runs, url, data, served, attempts, fetched, features, next,
                   inserted, store, nextId, lastOp, lastId>>
    /\ UNCHANGED <<script, geojson>>
    /\ UNCHANGED <<serviceVars, runVars>>

\* after the loop: the features are built and returned to main (the call's
\* locals and history are gone), which opens the pool and enters
\* upsert_facilities
fetch_facilities_return ==
    /\ pc = "loaded"
    /\ Truthy(data)
    /\ In("elements", data)
    /\ ~ConvertRaises(data["elements"])
    /\ features' = Convert(data["elements"])
    /\ url' = 1
    /\ data' = None
    /\ served' = 0
    /\ attempts' = <<>>
    /\ pc' = "upsert"
    /\ next' = 1
    /\ inserted' = 0
    /\ UNCHANGED <<runs, fetched, err, store, nextId, lastOp, lastId>>
    /\ UNCHANGED <<script, geojson>>
    /\ UNCHANGED <<serviceVars, runVars>>

\* one iteration of `for props in features`: the statement succeeds
upsert_facilities_execute ==
    /\ pc = "upsert"
    /\ next <= Len(features)
    /\ LET res == Execute(store, nextId, features[next])
       IN  /\ res.op # "error"
           /\ store' = res.rows
           /\ nextId' = res.nid
           /\ lastOp' = res.op
           /\ lastId' = res.id
    /\ inserted' = inserted + 1
    /\ next' = next + 1
    /\ UNCHANGED <<pc, runs, url, data, served, attempts, fetched, features, err>>
    /\ UNCHANGED <<script, geojson>>
    /\ UNCHANGED <<serviceVars, runVars>>

\* one iteration whose statement raises: the exception leaves the loop,
\* upsert_facilities and main (whose finally closes the pool)
upsert_facilities_raises ==
    /\ pc = "upsert"
    /\ next <= Len(features)
    /\ Execute(store, nextId, features[next]).op = "error"
    /\ lastOp' = "error"
    /\ lastId' = 0
    /\ pc' = "failed"
    /\ err' = "DataError"
    /\ UNCHANGED <<runs, url, data, served, attempts, fetched, features, next,
                   inserted, store, nextId>>
    /\ UNCHANGED <<script, geojson>>
    /\ UNCHANGED <<serviceVars, runVars>>

\* the loop is over: "Done! Upserted {inserted} facilities", pool closed
upsert_facilities_done ==
    /\ pc = "upsert"
    /\ next > Len(features)
    /\ pc' = "done"
    /\ UNCHANGED <<runs, url, data, served, attempts, fetched, features, next,
                   inserted, err, store, nextId, lastOp, lastId>>
    /\ UNCHANGED <<script, geojson>>
    /\ UNCHANGED <<serviceVars, runVars>>

\* a run of the script fetch_hospitals.py
fetch_hospitals ==
    /\ script = "fetch_hospitals"
    /\ pc \in {"idle", "done"}
    /\ runs < MaxRuns
    /\ runs' = runs + 1
    /\ pc' = "fetch"
    /\ url' = 1
    /\ data' = None
    /\ served' = 0
    /\ attempts' = <<>>
    /\ fetched' = 0
    /\ features' = <<>>
    /\ UNCHANGED <<script, geojson, next, inserted, err, store, nextId, lastOp, lastId>>
    /\ UNCHANGED <<serviceVars, runVars>>

\* where fetch_hospitals.py goes after an attempt: break on success, else
\* the next url; the script ends after the loop
AfterAttemptHospitals(ok, u) ==
    IF ok \/ u = Len(OVERPASS_URLS) THEN "done" ELSE "fetch"

\* one iteration whose request raises
fetch_hospitals_request_fails ==
    /\ script = "fetch_hospitals"
    /\ pc = "fetch"
    /\ attempts' = Append(attempts, [url |-> url, ok |-> FALSE])
    /\ pc' = AfterAttemptHospitals(FALSE, url)
    /\ url' = url + 1
    /\ UNCHANGED <<script, geojson, runs, data, served, fetched, features, next,
                   inserted, err, store, nextId, lastOp, lastId>>
    /\ UNCHANGED <<serviceVars, runVars>>

\* one iteration whose request returns JSON: either len(data['elements'])
\* raises, or the features are built, the file is written and the loop breaks
fetch_hospitals_response ==
    /\ script = "fetch_hospitals"
    /\ pc = "fetch"
    /\ \E body \in Bodies :
        /\ data' = body
        /\ served' = url
        /\ attempts' = Append(attempts, [url |-> url, ok |-> Usable(body)])
        /\ pc' = AfterAttemptHospitals(Usable(body), url)
        /\ IF Usable(body)
           THEN /\ fetched' = Len(body["elements"])
                /\ features' = Features(body["elements"])
                /\ geojson' = FeatureCollection(Features(body["elements"]))
           ELSE UNCHANGED <<fetched, features, geojson>>
    /\ url' = url + 1
    /\ UNCHANGED <<script, runs, next, inserted, err, store, nextId, lastOp, lastId>>
    /\ UNCHANGED <<serviceVars, runVars>>

Next ==
    \/ main
    \/ fetch_hospitals
    \/ fetch_hospitals_request_fails
    \/ fetch_hospitals_response
    \/ fetch_facilities_request_fails
    \/ fetch_facilities_response
    \/ fetch_facilities_unavailable
    \/ fetch_facilities_raises
    \/ fetch_facilities_return
    \/ upsert_facilities_execute
    \/ upsert_facilities_raises
    \/ upsert_facilities_done

Spec == Init /\ [][Next]_vars

----------------------------------------------------------------------------
(* The query service (src/api/app/main.py), as PostgreSQL evaluates its     *)
(* statements                                                              *)

\* `dist: int = 2000`
DefaultDist == 2000

\* LIMIT of nearest_facilities
LimitFacilities == 20

\* LIMIT of nearest_hospitals
LimitHospitals == 10

\* truth value of an optional str, as `if facility_type` takes it
TruthyStr(v) == v # None /\ v.s # <<>>

Abs(n) == IF n < 0 THEN 0 - n ELSE n

ST_X(geom) == IF geom = None THEN None ELSE Num(geom.x)

ST_Y(geom) == IF geom = None THEN None ELSE Num(geom.y)

\* ST_Distance(geom::geography, ST_SetSRID(ST_Point($1,$2),4326)::geography),
\* in metres.  The points of the model lie on whole degrees; the length of
\* the geodesic is taken as 74 km per degree of longitude plus 111 km per
\* degree of latitude (the sizes of a degree at 48 N), which like the
\* geodesic is zero exactly at the point itself and treats longitude and
\* latitude differently.
ST_Distance(geom, lon, lat) ==
    IF geom = None \/ lon = None \/ lat = None THEN None
    ELSE Num(74000 * Abs(geom.x - lon.n) + 111000 * Abs(geom.y - lat.n))

\* ST_DWithin excluding the points at the radius itself
ST_DWithinStrict(geom, lon, lat, dist) ==
    /\ ST_Distance(geom, lon, lat) # None
    /\ ST_Distance(geom, lon, lat).n < dist.n

\* ST_DWithin(geom::geography, point::geography, $3) as a WHERE condition:
\* the distance is at most $3; NULL (not true) for a NULL geometry
ST_DWithin(geom, lon, lat, dist) ==
    /\ ST_Distance(geom, lon, lat) # None
    /\ ST_Distance(geom, lon, lat).n <= dist.n

\* the characters of the model's texts, in code point order
Alphabet ==
    << " ", "/", "0", "1", "2", "3", "4", "5", "6", "7", "8", "9",
       "A", "B", "F", "G", "H", "M", "O", "R", "S", "U", "W",
       "a", "c", "d", "f", "h", "i", "k", "l", "m", "n", "o", "p", "s",
       "t", "u", "w", "y" >>

CodePoint(c) == CHOOSE k \in 1..Len(Alphabet) : Alphabet[k] = c

\* a < b for two texts, character by character
RECURSIVE TextLess(_, _)
TextLess(a, b) ==
    IF b = <<>> THEN FALSE
    ELSE IF a = <<>> THEN TRUE
    ELSE IF Head(a) = Head(b) THEN TextLess(Tail(a), Tail(b))
    ELSE CodePoint(Head(a)) < CodePoint(Head(b))

\* a sorts before b under ORDER BY ... ASC: numbers by value, texts by
\* character, NULL after everything else
SortsBefore(a, b) ==
    IF a = None THEN FALSE
    ELSE IF b = None THEN TRUE
    ELSE IF a.t = "num" THEN a.n < b.n
    ELSE TextLess(a.s, b.s)

\* Precedes ignoring the ORDER BY column
PrecedesById(r, o, column, tie) == r.id <= o.id

\* r may come before o in the output of ORDER BY column.  Rows that are
\* equal in the column come in an order the statement does not fix: the
\* order of their ids, ascending or descending.
Precedes(r, o, column, tie) ==
    \/ SortsBefore(r[column], o[column])
    \/ /\ ~SortsBefore(o[column], r[column])
       /\ IF tie = "asc" THEN r.id <= o.id ELSE r.id >= o.id

\* ORDER BY column
RECURSIVE OrderBy(_, _, _)
OrderBy(rows, column, tie) ==
    IF rows = {} THEN <<>>
    ELSE LET first == CHOOSE r \in rows : \A o \in rows : Precedes(r, o, column, tie)
         IN  <<first>> \o OrderBy(rows \ {first}, column, tie)

\* LIMIT n
Limit(rows, n) == SubSeq(rows, 1, IF Len(rows) < n THEN Len(rows) ELSE n)

\* the select list of the statements on health_facilities
SelectFacility(r) ==
    [ id            |-> r.id,
      name          |-> r.name,
      facility_type |-> r.facility_type,
      address       |-> r.address,
      city          |-> r.city,
      postcode      |-> r.postcode,
      phone         |-> r.phone,
      website       |-> r.website,
      operator      |-> r.operator,
      emergency     |-> r.emergency,
      capacity      |-> r.capacity,
      lon           |-> ST_X(r.geom),
      lat           |-> ST_Y(r.geom) ]

\* the select list of the statements on hospitals
SelectHospital(r) ==
    [ id        |-> r.id,
      name      |-> r.name,
      lon       |-> ST_X(r.geom),
      lat       |-> ST_Y(r.geom),
      address   |-> r.address,
      city      |-> r.city,
      postcode  |-> r.postcode,
      phone     |-> r.phone,
      website   |-> r.website,
      operator  |-> r.operator,
      emergency |-> r.emergency,
      capacity  |-> r.capacity ]

\* a selected row with the column distance_m
WithDistance(selected, geom, lon, lat) ==
    [k \in DOMAIN selected \cup {"distance_m"} |->
        IF k = "distance_m" THEN ST_Distance(geom, lon, lat) ELSE selected[k]]

\* the statement of get_all_hospitals
AllHospitals(rows, tie) ==
    OrderBy({SelectHospital(r) : r \in rows}, "name", tie)

\* the statement of nearest_hospitals
NearestHospitals(rows, lon, lat, dist, tie) ==
    Limit(OrderBy({WithDistance(SelectHospital(r), r.geom, lon, lat) :
                       r \in {h \in rows : ST_DWithin(h.geom, lon, lat, dist)}},
                  "distance_m", tie),
          LimitHospitals)

\* the statement of get_facilities
AllFacilities(rows, tie) ==
    OrderBy({SelectFacility(r) : r \in rows}, "name", tie)

\* the statement nearest_facilities chooses by `if facility_type`
NearestFacilities(rows, lon, lat, dist, facility_type, tie) ==
    LET matching ==
            IF TruthyStr(facility_type)
            THEN {r \in rows : /\ SqlEq(r.facility_type, facility_type)
                               /\ ST_DWithin(r.geom, lon, lat, dist)}
            ELSE {r \in rows : ST_DWithin(r.geom, lon, lat, dist)}
    IN  Limit(OrderBy({WithDistance(SelectFacility(r), r.geom, lon, lat) : r \in matching},
                      "distance_m", tie),
              LimitFacilities)

----------------------------------------------------------------------------
(* The handlers of the query service *)

\* the body of a handler's try block: the assertion on the pool, the
\* acquisition of a connection and conn.fetch, which either raise an
\* exception (whose str() is `fault`) or give the rows
Try(pl, fault, rows) ==
    IF pl = "none" THEN [raised |-> TRUE, e |-> ""]
    ELSE IF pl = "closed" THEN [raised |-> TRUE, e |-> "pool is closed"]
    ELSE IF fault # "" THEN [raised |-> TRUE, e |-> fault]
    ELSE [raised |-> FALSE, rows |-> rows]

\* Respond answering a failure with an empty list
RespondEmptyOnFailure(outcome, what) ==
    IF outcome.raised
    THEN [status |-> 200, body |-> <<>>]
    ELSE [status |-> 200, body |-> outcome.rows]

\* `return [dict(r) for r in rows]`, or
\* `except Exception as e: raise HTTPException(500, f"Error fetching {what}: {e}")`
Respond(outcome, what) ==
    IF outcome.raised
    THEN [status |-> 500, detail |-> "Error fetching " \o what \o ": " \o outcome.e]
    ELSE [status |-> 200, body |-> outcome.rows]

\* the value a handler's parameter is bound to
Param(req, name, default) == IF req[name] = None THEN default ELSE req[name]

----------------------------------------------------------------------------
(* The tables and requests of the query service *)

\* the largest table the service is queried on
MaxRows == 22

Digit(n) == Alphabet[n + 3]

\* the tags of the i-th facility of a table: one type in layout 1, two
\* types and untyped facilities in layout 2
TagsOf(i, layout) ==
    LET named == ("name" :> Str(<<"F", Digit(i \div 10), Digit(i % 10)>>)) @@
                 ("addr:city" :> Str(<<"W">>))
        kind  == (i + (i \div 6)) % 3
    IN  IF layout = 1 \/ kind = 1 THEN named @@ ("amenity" :> Str(<<"c">>))
        ELSE IF kind = 2 THEN named @@ ("amenity" :> Str(<<"h">>))
        ELSE named

\* the row upsert_facilities stores for the i-th facility
FacilityRow(i, layout) ==
    WithId(Excluded(Properties(Node(45 + (i % 2), 14 + ((i \div 2) % 3),
                                    TagsOf(i, layout)))), i)

\* the columns of a row of table hospitals
HospitalRow(i, layout) ==
    LET r == FacilityRow(i, layout)
    IN  [k \in DOMAIN r \ {"facility_type", "source"} |-> r[k]]

Layouts == {1, 2}

Faults == {"", "connection refused", "relation does not exist"}

Ties == {"asc", "desc"}

\* the requests: the query parameters (None when the request has none),
\* what the store does with the statement, and the order it gives to ties
Requests ==
    [ endpoint      : {"/facilities/nearest"},
      lon           : {Num(14), Num(16)},
      lat           : {Num(45)},
      dist          : {None, Num(0), Num(73999), Num(74000), Num(259000)},
      facility_type : {None, Str(<<>>), Str(<<"c">>), Str(<<"h">>)},
      fault         : Faults,
      tie           : Ties ]
    \cup
    [ endpoint      : {"/hospitals/nearest"},
      lon           : {Num(14), Num(16)},
      lat           : {Num(45)},
      dist          : {None, Num(0), Num(73999), Num(74000), Num(259000)},
      facility_type : {None},
      fault         : Faults,
      tie           : Ties ]
    \cup
    [ endpoint      : {"/facilities", "/hospitals"},
      lon           : {None},
      lat           : {None},
      dist          : {None},
      facility_type : {None},
      fault         : Faults,
      tie           : Ties ]

InitService ==
    /\ script = "app.main"
    /\ geojson = None
    /\ pc = "idle"
    /\ runs = 0
    /\ url = 1
    /\ data = None
    /\ served = 0
    /\ attempts = <<>>
    /\ fetched = 0
    /\ features = <<>>
    /\ next = 1
    /\ inserted = 0
    /\ err = ""
    /\ \E n \in 0..MaxRows : \E layout \in Layouts :
        /\ store = {FacilityRow(i, layout) : i \in 1..n}
        /\ hospitals = {HospitalRow(i, layout) : i \in 1..n}
        /\ nextId = n + 1
    /\ lastOp = "none"
    /\ lastId = 0
    /\ pool = "none"
    /\ request \in Requests
    /\ response = None
    /\ batch = <<>>
    /\ pos = <<>>
    /\ status = <<>>
    /\ counted = <<>>
    /\ applied = <<>>

\* lifespan up to its yield: the pool is created
lifespan_startup ==
    /\ pool = "none"
    /\ pool' = "open"
    /\ UNCHANGED <<hospitals, request, response>>
    /\ UNCHANGED <<script, geojson, pc, runs, url, data, served, attempts, fetched,
                   features, next, inserted, err, store, nextId, lastOp, lastId, runVars>>

\* lifespan after its yield: the pool is closed
lifespan_shutdown ==
    /\ pool = "open"
    /\ pool' = "closed"
    /\ UNCHANGED <<hospitals, request, response>>
    /\ UNCHANGED <<script, geojson, pc, runs, url, data, served, attempts, fetched,
                   features, next, inserted, err, store, nextId, lastOp, lastId, runVars>>

get_all_hospitals ==
    /\ request # None
    /\ request.endpoint = "/hospitals"
    /\ response = None
    /\ response' = Respond(Try(pool, request.fault, AllHospitals(hospitals, request.tie)),
                           "hospitals")
    /\ UNCHANGED <<pool, hospitals, request>>
    /\ UNCHANGED <<script, geojson, pc, runs, url, data, served, attempts, fetched,
                   features, next, inserted, err, store, nextId, lastOp, lastId, runVars>>

nearest_hospitals ==
    /\ request # None
    /\ request.endpoint = "/hospitals/nearest"
    /\ response = None
    /\ response' = Respond(Try(pool, request.fault,
                               NearestHospitals(hospitals, request.lon, request.lat,
                                                Param(request, "dist", Num(DefaultDist)),
                                                request.tie)),
                           "nearest hospitals")
    /\ UNCHANGED <<pool, hospitals, request>>
    /\ UNCHANGED <<script, geojson, pc, runs, url, data, served, attempts, fetched,
                   features, next, inserted, err, store, nextId, lastOp, lastId, runVars>>

get_facilities ==
    /\ request # None
    /\ request.endpoint = "/facilities"
    /\ response = None
    /\ response' = Respond(Try(pool, request.fault, AllFacilities(store, request.tie)),
                           "facilities")
    /\ UNCHANGED <<pool, hospitals, request>>
    /\ UNCHANGED <<script, geojson, pc, runs, url, data, served, attempts, fetched,
                   features, next, inserted, err, store, nextId, lastOp, lastId, runVars>>

nearest_facilities ==
    /\ request # None
    /\ request.endpoint = "/facilities/nearest"
    /\ response = None
    /\ response' = Respond(Try(pool, request.fault,
                               NearestFacilities(store, request.lon, request.lat,
                                                 Param(request, "dist", Num(DefaultDist)),
                                                 Param(request, "facility_type", None),
                                                 request.tie)),
                           "nearest facilities")
    /\ UNCHANGED <<pool, hospitals, request>>
    /\ UNCHANGED <<script, geojson, pc, runs, url, data, served, attempts, fetched,
                   features, next, inserted, err, store, nextId, lastOp, lastId, runVars>>

NextService ==
    \/ lifespan_startup
    \/ lifespan_shutdown
    \/ get_all_hospitals
    \/ nearest_hospitals
    \/ get_facilities
    \/ nearest_facilities

SpecService == InitService /\ [][NextService]_vars

----------------------------------------------------------------------------
(* Two runs of sync_hospitals.py at the same time, and a query meanwhile    *)

\* records the two runs upsert altogether
MaxConcurrent == 3

Runs == {1, 2}

\* the features fetch_facilities may return to a run
Batches ==
    SeqsUpTo({Properties(Node(48, 16, TagsA1)),
              Properties(Node(47, 17, TagsA2)),
              Properties(Node(48, 16, TagsU)),
              Properties(Node(48, 16, TagsBad))},
             MaxBatch)

\* Persisted with the run's statements undone by the exception
PersistedRolledBack(rows, before) == before

\* the table after a statement of a run raised: upsert_facilities opens no
\* transaction, so every earlier conn.execute was committed on its own and
\* stays, whatever the table was before the run
Persisted(rows, before) == rows

InitRuns ==
    /\ script = "sync_hospitals, twice"
    /\ geojson = None
    /\ pc = "idle"
    /\ runs = 0
    /\ url = 1
    /\ data = None
    /\ served = 0
    /\ attempts = <<>>
    /\ fetched = 0
    /\ features = <<>>
    /\ next = 1
    /\ inserted = 0
    /\ err = ""
    /\ store = {LegacyRow}
    /\ nextId = LegacyRow.id + 1
    /\ lastOp = "none"
    /\ lastId = 0
    /\ pool = "open"
    /\ hospitals = {}
    /\ request = [endpoint |-> "/facilities", lon |-> None, lat |-> None, dist |-> None,
                  facility_type |-> None, fault |-> "", tie |-> "asc"]
    /\ response = None
    /\ batch \in [Runs -> Batches]
    /\ Len(batch[1]) + Len(batch[2]) <= MaxConcurrent
    /\ pos = [r \in Runs |-> 1]
    /\ status = [r \in Runs |-> "upsert"]
    /\ counted = [r \in Runs |-> 0]
    /\ applied = <<>>

\* one iteration of a run's `for props in features`: the statement succeeds
concurrent_execute(r) ==
    /\ status[r] = "upsert"
    /\ pos[r] <= Len(batch[r])
    /\ LET res == Execute(store, nextId, batch[r][pos[r]])
       IN  /\ res.op # "error"
           /\ store' = res.rows
           /\ nextId' = res.nid
           /\ applied' = Append(applied, [run |-> r, index |-> pos[r],
                                          op |-> res.op, id |-> res.id])
    /\ counted' = [counted EXCEPT ![r] = @ + 1]
    /\ pos' = [pos EXCEPT ![r] = @ + 1]
    /\ UNCHANGED <<batch, status, serviceVars>>
    /\ UNCHANGED <<script, geojson, pc, runs, url, data, served, attempts, fetched,
                   features, next, inserted, err, lastOp, lastId>>

\* one iteration whose statement raises: the run ends
concurrent_raises(r) ==
    /\ status[r] = "upsert"
    /\ pos[r] <= Len(batch[r])
    /\ Execute(store, nextId, batch[r][pos[r]]).op = "error"
    /\ status' = [status EXCEPT ![r] = "failed"]
    /\ store' = Persisted(store, {LegacyRow})
    /\ UNCHANGED <<batch, pos, counted, applied, nextId, serviceVars>>
    /\ UNCHANGED <<script, geojson, pc, runs, url, data, served, attempts, fetched,
                   features, next, inserted, err, lastOp, lastId>>

\* the loop of a run is over
concurrent_done(r) ==
    /\ status[r] = "upsert"
    /\ pos[r] > Len(batch[r])
    /\ status' = [status EXCEPT ![r] = "done"]
    /\ UNCHANGED <<batch, pos, counted, applied, store, nextId, serviceVars>>
    /\ UNCHANGED <<script, geojson, pc, runs, url, data, served, attempts, fetched,
                   features, next, inserted, err, lastOp, lastId>>

NextRuns ==
    \/ \E r \in Runs : concurrent_execute(r)
    \/ \E r \in Runs : concurrent_raises(r)
    \/ \E r \in Runs : concurrent_done(r)
    \/ get_facilities

SpecRuns == InitRuns /\ [][NextRuns]_vars

----------------------------------------------------------------------------
(* Vocabulary of the properties *)

\* the natural key of a row or of a proposed row
Key(r) == <<r.name, r.city, r.facility_type>>

\* the row with a given id
RowById(rows, id) == CHOOSE r \in rows : r.id = id

\* the record the last executed statement was for
LastProps == features[next - 1]

\* the last statement wrote a row
Wrote == lastOp \in {"insert", "update"}

\* the whole loop of upsert_facilities on table `rows`: the table it leaves,
\* the loop ending at the first statement that raises
RECURSIVE upsert_facilities(_, _, _)
upsert_facilities(rows, nid, feats) ==
    IF feats = <<>> THEN rows
    ELSE LET res == Execute(rows, nid, Head(feats))
         IN  IF res.op = "error" THEN rows
             ELSE upsert_facilities(res.rows, res.nid, Tail(feats))

\* the loop of upsert_facilities has ended, normally or by an exception
UpsertOver ==
    /\ script = "sync_hospitals"
    /\ pc = "done" \/ (pc = "failed" /\ err = "DataError")

\* number of records whose statement was executed in this run
Processed == IF lastOp = "error" THEN next ELSE next - 1

\* a step that executed the statement for features[next] without an error
SuccessfulUpsert == pc = "upsert" /\ next' = next + 1

\* the mirror attempts of this run that failed
Failures == {k \in 1..Len(attempts) : ~attempts[k].ok}

\* some mirror attempt of this run succeeded
Succeeded == \E k \in 1..Len(attempts) : attempts[k].ok

\* every mirror was tried and none succeeded
AllMirrorsFailed ==
    /\ Len(attempts) = Len(OVERPASS_URLS)
    /\ ~Succeeded

\* a non-empty text without any digit
NotANumber(raw) ==
    /\ raw # None
    /\ raw.s # <<>>
    /\ \A k \in 1..Len(raw.s) : raw.s[k] \notin DigitChars

\* the text of a tag, absent tags contributing nothing
TextOrEmpty(v) == IF v = None THEN <<>> ELSE v.s

\* the table a request reads
Table ==
    IF request.endpoint \in {"/hospitals", "/hospitals/nearest"} THEN hospitals ELSE store

\* the handler of `endpoint` has answered the request with a success
Answered(endpoint) ==
    /\ request # None
    /\ request.endpoint = endpoint
    /\ response # None
    /\ response.status = 200

\* the handler has answered the request with an error
Failed ==
    /\ request # None
    /\ response # None
    /\ response.status # 200

\* the ids of the rows in a successful response
Returned == {response.body[k].id : k \in 1..Len(response.body)}

\* the radius of the request, in metres
Radius == IF request.dist = None THEN DefaultDist ELSE request.dist.n

\* metres from the request's point to a row
MetresTo(r) == ST_Distance(r.geom, request.lon, request.lat).n

\* the result count cap of the request's endpoint
Cap == IF request.endpoint = "/hospitals/nearest" THEN LimitHospitals ELSE LimitFacilities

\* a type filter is part of the request
FilterSupplied == request.facility_type # None

\* a type filter that is not the empty text is part of the request
FilterEffective == request.facility_type # None /\ request.facility_type # Str(<<>>)

\* the rows of the request's table that its WHERE condition accepts
Matching ==
    {r \in Table :
        /\ MetresTo(r) <= Radius
        /\ request.endpoint = "/facilities/nearest" /\ FilterEffective =>
               r.facility_type = request.facility_type}

\* a nearest handler has answered the request with a success
AnsweredNearest == Answered("/facilities/nearest") \/ Answered("/hospitals/nearest")

\* a handler answers the request in this step
Handled == response = None /\ response' # None

\* the store operation of the request fails: no pool, a closed pool, or an
\* exception of the store
OperationFails == pool # "open" \/ request.fault # ""

\* str() of the exception the failing operation raises
Cause ==
    IF pool = "none" THEN ""
    ELSE IF pool = "closed" THEN "pool is closed"
    ELSE request.fault

\* the text an endpoint's errors begin with
ErrorPrefix ==
    CASE request.endpoint = "/hospitals"          -> "Error fetching hospitals: "
      [] request.endpoint = "/hospitals/nearest"  -> "Error fetching nearest hospitals: "
      [] request.endpoint = "/facilities"         -> "Error fetching facilities: "
      [] request.endpoint = "/facilities/nearest" -> "Error fetching nearest facilities: "

\* the rows a request asks for: the matching ones, or the whole table
AskedFor ==
    IF request.endpoint \in {"/hospitals", "/facilities"} THEN Table ELSE Matching

\* the longest response of the request's endpoint
Longest ==
    IF request.endpoint \in {"/hospitals", "/facilities"} THEN Cardinality(Table) ELSE Cap

\* the int a capacity text stands for, NULL for an absent or empty one
CapacityOf(raw) ==
    IF raw = None \/ raw = Str(<<>>) THEN None ELSE IntCast(raw.s).value

\* the last statement updated an existing row (it met its natural key)
UpdatedExisting == SuccessfulUpsert /\ lastOp' = "update"

\* the row holds the mutable columns the statement derives from a record
Carries(row, props) ==
    /\ row.address = Address(props)
    /\ row.postcode = props.postcode
    /\ row.phone = props.phone
    /\ row.website = props.website
    /\ row.operator = props.operator
    /\ row.emergency = props.emergency
    /\ row.capacity = CapacityOf(props.capacity)
    /\ row.geom = [x |-> props.lon.n, y |-> props.lat.n, srid |-> 4326]

\* the natural key of a record
KeyOf(props) == <<props.name, props.city, props.facility_type>>

\* index of the last record of the batch with the natural key of record k
LastWithKey(feats, k) ==
    CHOOSE j \in k..Len(feats) :
        /\ KeyOf(feats[j]) = KeyOf(feats[k])
        /\ \A i \in (j + 1)..Len(feats) : KeyOf(feats[i]) # KeyOf(feats[k])

\* the rows this pipeline wrote
Ingested == {r \in store : r.source = Str(<<"O", "S", "M">>)}

\* the record of an executed statement of the concurrent runs
RecordOf(a) == batch[a.run][a.index]

\* position in `applied` of the last statement that wrote the row `id`
LastWriteTo(id) ==
    CHOOSE k \in 1..Len(applied) :
        /\ applied[k].id = id
        /\ \A j \in (k + 1)..Len(applied) : applied[j].id # id

\* every row a statement wrote carries the mutable columns of the record of
\* the last statement that wrote it, whichever run that was
LastWriterWins ==
    \A k \in 1..Len(applied) :
        \E row \in store :
            /\ row.id = applied[k].id
            /\ Carries(row, RecordOf(applied[LastWriteTo(row.id)]))

\* a natural key upserted by both runs has one row
OneRowPerKey ==
    \A j, k \in 1..Len(applied) :
        /\ applied[j].run # applied[k].run
        /\ KeyOf(RecordOf(applied[j])) = KeyOf(RecordOf(applied[k]))
        => Cardinality({row \in store : Key(row) = KeyOf(RecordOf(applied[k]))}) = 1

\* the records of the statements executed so far, in the order of execution
Executed == [k \in 1..Len(applied) |-> RecordOf(applied[k])]

\* the table the concurrent runs start on
Before == {LegacyRow}

\* the table after the first n executed statements
After(n) == upsert_facilities(Before, LegacyRow.id + 1, SubSeq(Executed, 1, n))

\* the other run
Other(r) == CHOOSE o \in Runs : o # r

----------------------------------------------------------------------------
(* C1: idempotence of upsert_facilities.  Once a batch has been upserted,  *)
(* upserting the identical batch again leaves the table as it is: the same *)
(* number of rows and the same values in every row.                        *)

Idempotence ==
    UpsertOver => upsert_facilities(store, nextId, features) = store

----------------------------------------------------------------------------
(* C2: key stability.  The table never holds two rows with the same        *)
(* natural key (name, city, facility_type).                                *)

KeyStability ==
    \A r1, r2 \in store : Key(r1) = Key(r2) => r1 = r2

----------------------------------------------------------------------------
(* C3: per-record failure isolation.  A statement that fails for one       *)
(* record does not end the batch: when the upsert loop is over, the        *)
(* statement has been executed for every record of the batch.              *)

FailureIsolation ==
    UpsertOver => Processed = Len(features)

----------------------------------------------------------------------------
(* C4: mirror failover.  Mirrors are tried in the configured order, each   *)
(* at most once; a failed attempt moves on to the next mirror; a           *)
(* successful attempt is the last one, and its body is the data the fetch  *)
(* goes on with.  When the first two of the three mirrors fail and the     *)
(* third succeeds, the data is the third's and two failures are recorded.  *)

MirrorFailover ==
    /\ Len(attempts) <= Len(OVERPASS_URLS)
    /\ \A k \in 1..Len(attempts) : attempts[k].url = k
    /\ \A k \in 1..(Len(attempts) - 1) : ~attempts[k].ok
    /\ pc = "fetch" => ~Succeeded /\ url = Len(attempts) + 1
    /\ pc = "loaded" /\ ~Succeeded => Len(attempts) = Len(OVERPASS_URLS)
    /\ pc = "loaded" /\ Succeeded =>
           /\ served = Len(attempts)
           /\ Usable(data)
           /\ fetched = Len(data["elements"])
           /\ Cardinality(Failures) = Len(attempts) - 1
    /\ script = "fetch_hospitals" /\ pc = "done" /\ ~Succeeded =>
           Len(attempts) = Len(OVERPASS_URLS)
    /\ script = "fetch_hospitals" /\ pc = "done" /\ Succeeded =>
           /\ served = Len(attempts)
           /\ Usable(data)
           /\ geojson = FeatureCollection(Features(data["elements"]))
           /\ Cardinality(Failures) = Len(attempts) - 1

MirrorFailoverWitness ==
    /\ script = "sync_hospitals"
    /\ pc = "loaded"
    /\ Len(attempts) = 3
    /\ ~attempts[1].ok /\ ~attempts[2].ok /\ attempts[3].ok
    /\ served = 3
    /\ Cardinality(Failures) = 2
    /\ data["elements"] # <<>>

----------------------------------------------------------------------------
(* C5: total source failure.  When every mirror attempt has failed, the    *)
(* fetch ends with the one "all servers failed" error (the RuntimeError),  *)
(* the run stops and no statement is executed against the table.           *)

SourceUnavailable ==
    script = "sync_hospitals" /\ AllMirrorsFailed /\ pc # "loaded" =>
        /\ pc = "failed"
        /\ err = "RuntimeError"
        /\ lastOp = "none"

----------------------------------------------------------------------------
(* C6: capacity coercion.  A record whose capacity is absent or "" is      *)
(* stored with capacity NULL, a record with capacity "120" is stored with  *)
(* the integer 120, and a record whose capacity has no digit in it (such   *)
(* as "n/a") makes its statement raise and is never stored.                *)

CapacityCoercion ==
    /\ Wrote =>
        LET raw == LastProps.capacity
            row == RowById(store, lastId)
        IN  /\ raw \in {None, Str(<<>>)} => row.capacity = None
            /\ raw = Str(<<"1", "2", "0">>) => row.capacity = Num(120)
            /\ ~NotANumber(raw)
    /\ pc = "upsert" /\ next <= Len(features) /\ NotANumber(features[next].capacity)
           => ~ENABLED upsert_facilities_execute
    /\ lastOp = "error" => pc = "failed" /\ err = "DataError"

CapacityCoercionWitness ==
    /\ lastOp = "error"
    /\ NotANumber(features[next].capacity)
    /\ \E r \in store : r.capacity = Num(120)
    /\ \E r \in store : r.source = Str(<<"O", "S", "M">>) /\ r.capacity = None

----------------------------------------------------------------------------
(* C7: address derivation.  The stored address is street and housenumber   *)
(* joined by one space and trimmed; a missing half contributes nothing, so *)
(* the address is the other half alone, or "" when both are missing.       *)

AddressDerivation ==
    Wrote =>
        RowById(store, lastId).address =
            Str(Strip(TextOrEmpty(LastProps.street) \o <<" ">>
                        \o TextOrEmpty(LastProps.housenumber)))

----------------------------------------------------------------------------
(* C8: frame of the conflict update.  A statement that hits an existing    *)
(* natural key changes that one row only, and leaves its id, name, city,   *)
(* facility_type and source (the columns outside the SET list) as they     *)
(* were.                                                                   *)

ConflictFrame ==
    [][ SuccessfulUpsert /\ lastOp' = "update" =>
          \E old \in store : \E new \in store' :
              /\ store' \ {new} = store \ {old}
              /\ new.id = old.id
              /\ new.name = old.name
              /\ new.city = old.city
              /\ new.facility_type = old.facility_type
              /\ new.source = old.source ]_vars

ConflictFrameWitness ==
    /\ lastOp = "update"
    /\ LET row == RowById(store, lastId)
       IN  /\ row.source = LegacyRow.source
           /\ row.id = LegacyRow.id
           /\ row.phone # LegacyRow.phone
           /\ row.geom # LegacyRow.geom

----------------------------------------------------------------------------
(* C9: geometry invariant.  Every row of the table has a geometry; an      *)
(* element without "lat" or without "lon" is left out of the features      *)
(* without raising, so every feature that reaches the upsert carries both  *)
(* coordinates.                                                            *)

GeometryInvariant ==
    /\ \A r \in store : r.geom # None
    /\ script = "sync_hospitals" =>
           \A k \in 1..Len(features) :
               /\ features[k].lon \notin {None, KeyError}
               /\ features[k].lat \notin {None, KeyError}
    /\ pc = "failed" /\ err = "KeyError" => ~In("elements", data)
    /\ pc \in {"upsert", "done"} => Len(features) <= fetched

GeometryInvariantWitness ==
    /\ pc = "done"
    /\ fetched > Len(features)
    /\ lastOp = "update"
    /\ \E r \in store : r.id = lastId /\ r.geom = [x |-> 17, y |-> 47, srid |-> SRID]

----------------------------------------------------------------------------
(* C10: lifecycle.  No step of the pipeline deletes a row or changes its   *)
(* natural key: every row present before a step is present after it, with *)
(* the same id and key, so the set of keys in the table never shrinks; and *)
(* after a successful upsert a row with the record's key exists.           *)

Lifecycle ==
    [][ /\ \A r \in store : \E r2 \in store' : r2.id = r.id /\ Key(r2) = Key(r)
        /\ SuccessfulUpsert =>
               \E r \in store' :
                   /\ r.id = lastId'
                   /\ Key(r) = Key(Excluded(features[next])) ]_vars

LifecycleWitness ==
    /\ runs = 2
    /\ pc = "done"
    /\ \E r \in store :
           /\ r.source = Str(<<"O", "S", "M">>)
           /\ \A k \in 1..Len(features) : Key(Excluded(features[k])) # Key(r)

----------------------------------------------------------------------------
(* C11: filter of nearest, as stated.  A row is returned only if it lies   *)
(* within the radius and, when the request carries a type filter, has that *)
(* type; a row beyond the radius is never returned; a row within the       *)
(* radius (the radius itself included) whose type is eligible is returned  *)
(* unless the result is full.                                              *)

NearestFilterAsStated ==
    /\ Answered("/facilities/nearest") =>
           \A r \in store :
               /\ r.id \in Returned =>
                      /\ MetresTo(r) <= Radius
                      /\ FilterSupplied => r.facility_type = request.facility_type
               /\ MetresTo(r) > Radius => r.id \notin Returned
               /\ /\ MetresTo(r) <= Radius
                  /\ FilterSupplied => r.facility_type = request.facility_type
                  => r.id \in Returned \/ Len(response.body) = Cap
    /\ Answered("/hospitals/nearest") =>
           \A r \in hospitals :
               /\ r.id \in Returned => MetresTo(r) <= Radius
               /\ MetresTo(r) <= Radius => r.id \in Returned \/ Len(response.body) = Cap

(* C11: filter of nearest, amended.  As above, with a type filter counting *)
(* only when it is not the empty text: a request whose filter is "" is     *)
(* answered like one without a filter, every type being eligible.          *)

NearestFilter ==
    /\ Answered("/facilities/nearest") =>
           \A r \in store :
               /\ r.id \in Returned =>
                      /\ MetresTo(r) <= Radius
                      /\ FilterEffective => r.facility_type = request.facility_type
               /\ MetresTo(r) > Radius => r.id \notin Returned
               /\ /\ MetresTo(r) <= Radius
                  /\ FilterEffective => r.facility_type = request.facility_type
                  => r.id \in Returned \/ Len(response.body) = Cap
    /\ Answered("/hospitals/nearest") =>
           \A r \in hospitals :
               /\ r.id \in Returned => MetresTo(r) <= Radius
               /\ MetresTo(r) <= Radius => r.id \in Returned \/ Len(response.body) = Cap

NearestFilterWitness ==
    /\ Answered("/facilities/nearest")
    /\ FilterEffective
    /\ Len(response.body) < Cap
    /\ \E r \in store : r.id \in Returned /\ MetresTo(r) = Radius
    /\ \E r \in store : r.id \in Returned /\ MetresTo(r) < Radius
    /\ \E r \in store : MetresTo(r) <= Radius /\ r.facility_type # request.facility_type
    /\ \E r \in store : MetresTo(r) > Radius /\ r.facility_type = request.facility_type

----------------------------------------------------------------------------
(* C12: ordering and cap of nearest.  The returned rows carry their own    *)
(* distance from the query point and come in non-decreasing distance over  *)
(* the whole response; there are at most 20 of them from health_facilities *)
(* and at most 10 from hospitals; and a matching row that is left out is   *)
(* no closer than any returned one, the response then being full.          *)

NearestOrder ==
    AnsweredNearest =>
        /\ \A k \in 1..Len(response.body) :
               \E r \in Matching :
                   /\ r.id = response.body[k].id
                   /\ response.body[k].distance_m = Num(MetresTo(r))
        /\ \A k \in 1..(Len(response.body) - 1) :
               response.body[k].distance_m.n <= response.body[k + 1].distance_m.n
        /\ Answered("/facilities/nearest") => Len(response.body) <= 20
        /\ Answered("/hospitals/nearest") => Len(response.body) <= 10
        /\ Len(response.body) = IF Cardinality(Matching) < Cap
                                THEN Cardinality(Matching) ELSE Cap
        /\ \A r \in Matching :
               r.id \notin Returned =>
                   \A k \in 1..Len(response.body) : response.body[k].distance_m.n <= MetresTo(r)

NearestOrderWitness ==
    /\ Answered("/facilities/nearest")
    /\ FilterEffective
    /\ Cardinality(Matching) > Cap
    /\ Len(response.body) = Cap
    /\ response.body[1].distance_m.n < response.body[Cap].distance_m.n
    /\ \E r \in Matching : r.id \notin Returned /\ MetresTo(r) > response.body[1].distance_m.n

----------------------------------------------------------------------------
(* C13: query outcomes.  A handler whose store operation fails (no pool, a *)
(* closed pool, an exception of the store) answers with status 500 whose   *)
(* detail is the endpoint's error text followed by the text of the         *)
(* exception, never with a success.  A handler whose operation succeeds    *)
(* answers with status 200 and the rows asked for, up to the cap: all of   *)
(* them when they are fewer, and the empty sequence when there are none.   *)

QueryOutcomes ==
    [][ Handled =>
          /\ OperationFails =>
                 /\ response'.status = 500
                 /\ response'.detail = ErrorPrefix \o Cause
          /\ ~OperationFails =>
                 /\ response'.status = 200
                 /\ {response'.body[k].id : k \in 1..Len(response'.body)}
                        \subseteq {r.id : r \in AskedFor}
                 /\ Len(response'.body) = IF Cardinality(AskedFor) < Longest
                                          THEN Cardinality(AskedFor) ELSE Longest
                 /\ AskedFor = {} => response'.body = <<>> ]_vars

QueryOutcomesWitness ==
    /\ Failed
    /\ response.status = 500
    /\ pool = "open"
    /\ request.fault = "connection refused"
    /\ response.detail = "Error fetching nearest facilities: connection refused"
    /\ Matching # {}

----------------------------------------------------------------------------
(* C14: latest fetch wins.  After a statement has updated the row with the *)
(* record's natural key, that row holds the record's postcode, phone,      *)
(* website, operator and emergency (NULL where the record has none), the   *)
(* address and the capacity the statement derives from the record, and the *)
(* point whose x is the record's longitude and whose y is its latitude;    *)
(* nothing of the row's previous values of these columns remains.          *)

LatestFetchWins ==
    [][ UpdatedExisting =>
          \E row \in store' :
              /\ row.id = lastId'
              /\ row.id \in {old.id : old \in store}
              /\ row.address = Address(features[next])
              /\ row.postcode = features[next].postcode
              /\ row.phone = features[next].phone
              /\ row.website = features[next].website
              /\ row.operator = features[next].operator
              /\ row.emergency = features[next].emergency
              /\ row.capacity = CapacityOf(features[next].capacity)
              /\ row.geom.x = features[next].lon.n
              /\ row.geom.y = features[next].lat.n
              /\ row.geom.srid = 4326 ]_vars

LatestFetchWinsWitness ==
    /\ script = "sync_hospitals"
    /\ pc = "upsert"
    /\ lastOp = "update"
    /\ next > 1
    /\ LastProps.phone = None
    /\ LastProps.lon # LastProps.lat
    /\ RowById(store, lastId).phone = None
    /\ RowById(store, lastId).source # Str(<<"O", "S", "M">>)
    /\ RowById(store, lastId).geom # LegacyRow.geom

----------------------------------------------------------------------------
(* C15: concurrent ingestion runs.  When two runs upsert records of one    *)
(* natural key, the row holds all mutable columns of the record whose      *)
(* statement was executed last (none of the other record's), and the key   *)
(* has exactly one row.                                                    *)

ConcurrentRuns ==
    /\ LastWriterWins
    /\ OneRowPerKey

----------------------------------------------------------------------------
(* C16: no run-level atomicity.  Each statement is a unit of work of its   *)
(* own: the table is at every moment the result of the statements executed *)
(* so far, which for each run are a prefix of its batch in batch order (so *)
(* with one run alone, the result of upserting a prefix of its batch); a   *)
(* query answered meanwhile returns the table as it was after some of      *)
(* them; and a run that ends at a failing record leaves the rows of the    *)
(* records before it in the table.                                         *)

UnitsOfWork ==
    /\ store = After(Len(applied))
    /\ \A r \in Runs :
           /\ pos[r] \in 1..(Len(batch[r]) + 1)
           /\ Cardinality({k \in 1..Len(applied) : applied[k].run = r}) = pos[r] - 1
           /\ \A j, k \in 1..Len(applied) :
                  applied[j].run = r /\ applied[k].run = r /\ j < k
                      => applied[j].index < applied[k].index
           /\ batch[Other(r)] = <<>> =>
                  store = upsert_facilities(Before, LegacyRow.id + 1,
                                            SubSeq(batch[r], 1, pos[r] - 1))
           /\ status[r] = "failed" =>
                  /\ pos[r] <= Len(batch[r])
                  /\ \A i \in 1..(pos[r] - 1) :
                         \E row \in store : Key(row) = KeyOf(batch[r][i])
    /\ response # None =>
           /\ response.status = 200
           /\ \E n \in 0..Len(applied) : response.body = AllFacilities(After(n), "asc")

UnitsOfWorkWitness ==
    /\ status # <<>>
    /\ status[1] = "failed"
    /\ batch[2] = <<>>
    /\ Len(batch[1]) = 2
    /\ pos[1] = 2
    /\ \E row \in store : row.id # LegacyRow.id /\ Carries(row, batch[1][1])
    /\ response # None
    /\ Len(response.body) = Cardinality(store)
    /\ Cardinality(store) > Cardinality(Before)

----------------------------------------------------------------------------
(* C17: duplicates inside one batch.  The loop executes one statement at a *)
(* time, for the records in batch order, and counts each; when it has run  *)
(* through the batch, every record's natural key has a row carrying the    *)
(* mutable columns of the last record of the batch with that key, and the  *)
(* count is the length of the batch, whatever the number of rows.          *)

BatchOrder ==
    script = "sync_hospitals" =>
        /\ pc \in {"upsert", "done"} =>
               /\ next \in 1..(Len(features) + 1)
               /\ inserted = next - 1
        /\ pc = "done" =>
               /\ inserted = Len(features)
               /\ \A k \in 1..Len(features) :
                      \E row \in store :
                          /\ Key(row) = KeyOf(features[k])
                          /\ Carries(row, features[LastWithKey(features, k)])

BatchOrderWitness ==
    /\ script = "sync_hospitals"
    /\ pc = "done"
    /\ Len(features) = 2
    /\ KeyOf(features[1]) = KeyOf(features[2])
    /\ features[1].city # None
    /\ features[1].phone # features[2].phone
    /\ features[1].lon # features[2].lon
    /\ inserted = 2
    /\ inserted > Cardinality(Ingested)
    /\ \E row \in Ingested : Carries(row, features[2]) /\ ~Carries(row, features[1])

====
